---- MODULE Spec2Model ----
(***************************************************************************)
(* A model of src/CIK.py: the SecEdgar class.                              *)
(*                                                                         *)
(*   - the constructor's loop over the company feed, which builds the      *)
(*     three dictionaries cik_data, company_name and stock_ticker;         *)
(*   - name_to_cik and ticker_to_cik, the two lookups;                     *)
(*   - _format_cik, _get_filings, annual_filing and quarterly_filing.      *)
(*                                                                         *)
(* A Python str is a sequence of tokens (one-character strings, or a       *)
(* literal of the source kept whole), so that lower(), zfill(), replace(), *)
(* startswith(), split() and int() are computed and not assumed.  A Python *)
(* value that an operation returns is a record tagged with its type; an    *)
(* exception that leaves the operation is the record PyRaise(name).        *)
(***************************************************************************)
EXTENDS Integers, Sequences, FiniteSets, TLC

VARIABLES
  pc,            \* "load": inside the constructor's loop; "ready": constructed
  filejson,      \* the feed values the constructor's loop has visited, in order
  cik_data,      \* self.cik_data:     cik -> (cik, ticker, name)
  company_name,  \* self.company_name: name.lower() -> cik
  stock_ticker,  \* self.stock_ticker: ticker.lower() -> cik
  call,          \* the last method called, with its arguments
  resp,          \* what the GET of the last filings call answered
  geturl,        \* the URL the last filings call requested
  ret            \* what the last method returned, or the exception it raised

vars == <<pc, filejson, cik_data, company_name, stock_ticker, call, resp, geturl, ret>>

(***************************************************************************)
(* Bounds of the model.                                                    *)
(***************************************************************************)
MaxFeed == 2      \* feed values the constructor visits

MaxFilings == 2   \* entries of each array of filings.recent

NoResponse == [status |-> "none"]

(***************************************************************************)
(* Python values.                                                          *)
(***************************************************************************)
PyNone == [type |-> "none"]

PyStr(s) == [type |-> "str", str |-> s]

PyTuple(t) == [type |-> "tuple", tuple |-> t]

PyList(l) == [type |-> "list", list |-> l]

PyDict(d) == [type |-> "dict", dict |-> d]

PyRaise(e, msg) == [type |-> "raise", exc |-> e, msg |-> msg]

\* d[k] = v on a dict
Put(d, k, v) == [x \in (DOMAIN d) \cup {k} |-> IF x = k THEN v ELSE d[x]]

EmptyDict == <<>>

(***************************************************************************)
(* str.lower(), character by character.                                    *)
(***************************************************************************)
LowerOfChar(c) ==
  CASE c = "A" -> "a"
    [] c = "B" -> "b"
    [] c = "C" -> "c"
    [] c = "X" -> "x"
    [] c = "Y" -> "y"
    [] OTHER -> c

Lower(s) == [i \in 1..Len(s) |-> LowerOfChar(s[i])]

(***************************************************************************)
(* The company feed: the values of the JSON object.  A value may lack      *)
(* 'ticker' or 'title', or hold an empty string there.                     *)
(***************************************************************************)
Ciks == {7, 320193}

Names == {<<"A", "b">>, <<"a", "b">>, <<"C", ".">>}

Tickers == {<<"X">>, <<"x">>, <<"Y">>}

CompleteItems ==
  {[cik_str |-> c, ticker |-> t, title |-> n] : c \in Ciks, t \in Tickers, n \in Names}

IncompleteItems ==
  { [cik_str |-> 7, title |-> <<"A", "b">>],
    [cik_str |-> 7, ticker |-> <<>>, title |-> <<"A", "b">>],
    [cik_str |-> 320193, ticker |-> <<"X">>],
    [cik_str |-> 320193, ticker |-> <<"X">>, title |-> <<>>],
    [cik_str |-> 7] }

Items == CompleteItems \cup IncompleteItems

\* a variant that tests `is None` and lets the empty string through
FalsyNoneOnly(item, key) == key \notin DOMAIN item

\* `not item.get(key)`: the key is missing (None) or its string is empty
Falsy(item, key) == key \notin DOMAIN item \/ item[key] = <<>>

Skipped(item) == Falsy(item, "title") \/ Falsy(item, "ticker")

(***************************************************************************)
(* SecEdgar.__init__: the body of the loop over the feed values.           *)
(***************************************************************************)
cik_data_after(item) ==
  Put(cik_data, item.cik_str, <<item.cik_str, item.ticker, item.title>>)

\* a variant that keys the name as written, without lower()
company_name_after_raw(item) == Put(company_name, item.title, item.cik_str)

company_name_after(item) == Put(company_name, Lower(item.title), item.cik_str)

\* a variant that keys the ticker as written, without lower()
stock_ticker_after_raw(item) == Put(stock_ticker, item.ticker, item.cik_str)

stock_ticker_after(item) == Put(stock_ticker, Lower(item.ticker), item.cik_str)

\* one iteration of `for item in self.filejson.values()`
LoadItem(item) ==
  /\ pc = "load"
  /\ Len(filejson) < MaxFeed
  /\ filejson' = Append(filejson, item)
  /\ IF Skipped(item)
       THEN UNCHANGED <<cik_data, company_name, stock_ticker>>
       ELSE /\ cik_data' = cik_data_after(item)
            /\ company_name' = company_name_after(item)
            /\ stock_ticker' = stock_ticker_after(item)
  /\ UNCHANGED <<pc, call, resp, geturl, ret>>

\* the loop ends: the constructor returns
EndLoad ==
  /\ pc = "load"
  /\ pc' = "ready"
  /\ UNCHANGED <<filejson, cik_data, company_name, stock_ticker, call, resp, geturl, ret>>

(***************************************************************************)
(* name_to_cik and ticker_to_cik.  A KeyError of either subscript is       *)
(* caught and turned into the message.                                     *)
(***************************************************************************)
\* a variant that looks the name up as written, without lower()
name_to_cik_raw(name) ==
  IF name \notin DOMAIN company_name
    THEN PyStr(<<"Company not found.">>)
    ELSE PyTuple(cik_data[company_name[name]])

name_to_cik(name) ==
  IF Lower(name) \notin DOMAIN company_name
    THEN PyStr(<<"Company not found.">>)
    ELSE LET cik == company_name[Lower(name)]
         IN  IF cik \notin DOMAIN cik_data
               THEN PyStr(<<"Company not found.">>)
               ELSE PyTuple(cik_data[cik])

ticker_to_cik(ticker) ==
  IF Lower(ticker) \notin DOMAIN stock_ticker
    THEN PyStr(<<"Ticker not found.">>)
    ELSE LET cik == stock_ticker[Lower(ticker)]
         IN  IF cik \notin DOMAIN cik_data
               THEN PyStr(<<"Ticker not found.">>)
               ELSE PyTuple(cik_data[cik])

\* the caller holds no result: it has not called yet, or is done with the last
Idle == call.op = "none"

\* the caller is done with the value of the last call (the script prints it)
\* and is free to make the next call
Discard ==
  /\ ~Idle
  /\ call' = [op |-> "none"]
  /\ resp' = NoResponse
  /\ geturl' = <<>>
  /\ ret' = PyNone
  /\ UNCHANGED <<pc, filejson, cik_data, company_name, stock_ticker>>

NameQueries ==
  {<<"A", "b">>, <<"a", "b">>, <<"A", "B">>, <<"C", ".">>, <<"c", ".">>, <<"b">>}

TickerQueries == {<<"X">>, <<"x">>, <<"Y">>, <<"y">>, <<"Z">>}

NameToCik ==
  /\ pc = "ready"
  /\ Idle
  /\ \E name \in NameQueries :
       /\ call' = [op |-> "name_to_cik", arg |-> name]
       /\ ret' = name_to_cik(name)
  /\ UNCHANGED <<pc, filejson, cik_data, company_name, stock_ticker, resp, geturl>>

TickerToCik ==
  /\ pc = "ready"
  /\ Idle
  /\ \E ticker \in TickerQueries :
       /\ call' = [op |-> "ticker_to_cik", arg |-> ticker]
       /\ ret' = ticker_to_cik(ticker)
  /\ UNCHANGED <<pc, filejson, cik_data, company_name, stock_ticker, resp, geturl>>

Init ==
  /\ pc = "load"
  /\ filejson = <<>>
  /\ cik_data = EmptyDict
  /\ company_name = EmptyDict
  /\ stock_ticker = EmptyDict
  /\ call = [op |-> "none"]
  /\ resp = NoResponse
  /\ geturl = <<>>
  /\ ret = PyNone

Next ==
  \/ \E item \in Items : LoadItem(item)
  \/ EndLoad
  \/ NameToCik
  \/ TickerToCik
  \/ Discard

Spec == Init /\ [][Next]_vars

(***************************************************************************)
(* Strings: str(int), zfill, replace, startswith, split and int.           *)
(***************************************************************************)
DigitChars == <<"0", "1", "2", "3", "4", "5", "6", "7", "8", "9">>

RECURSIVE StrOfInt(_)
\* str(n) of an integer n >= 0
StrOfInt(n) ==
  IF n < 10
    THEN <<DigitChars[n + 1]>>
    ELSE StrOfInt(n \div 10) \o <<DigitChars[(n % 10) + 1]>>

RECURSIVE Zfill(_, _)
\* s.zfill(width) of a string without sign
Zfill(s, width) == IF Len(s) >= width THEN s ELSE Zfill(<<"0">> \o s, width)

RECURSIVE Remove(_, _)
\* s.replace(ch, '') for a one-character ch
Remove(s, ch) ==
  IF s = <<>>
    THEN <<>>
    ELSE IF Head(s) = ch
           THEN Remove(Tail(s), ch)
           ELSE <<Head(s)>> \o Remove(Tail(s), ch)

\* s.startswith(prefix)
StartsWith(s, prefix) ==
  Len(prefix) <= Len(s) /\ SubSeq(s, 1, Len(prefix)) = prefix

RECURSIVE Split(_, _)
\* s.split(sep) for a one-character sep
Split(s, sep) ==
  IF \A i \in 1..Len(s) : s[i] # sep
    THEN <<s>>
    ELSE LET k == CHOOSE i \in 1..Len(s) : s[i] = sep /\ \A j \in 1..(i - 1) : s[j] # sep
         IN  <<SubSeq(s, 1, k - 1)>> \o Split(SubSeq(s, k + 1, Len(s)), sep)

IsDigits(s) == s # <<>> /\ \A i \in 1..Len(s) : \E d \in 1..10 : DigitChars[d] = s[i]

DigitValue(ch) == (CHOOSE d \in 1..10 : DigitChars[d] = ch) - 1

RECURSIVE IntOfStr(_)
\* int(s) of a string of decimal digits
IntOfStr(s) ==
  IF Len(s) = 1
    THEN DigitValue(s[1])
    ELSE 10 * IntOfStr(SubSeq(s, 1, Len(s) - 1)) + DigitValue(s[Len(s)])

(***************************************************************************)
(* _format_cik and _get_filings.                                           *)
(***************************************************************************)
CikWidth == 10

\* a variant that renders the CIK without padding
format_cik_unpadded(cik) == StrOfInt(cik)

format_cik(cik) == Zfill(StrOfInt(cik), CikWidth)

submissions_url(cik) ==
  <<"https://data.sec.gov/submissions/CIK">> \o format_cik(cik) \o <<".json">>

FetchFailure(cik) ==
  PyRaise("RuntimeError", <<"Failed to fetch filings for CIK ">> \o StrOfInt(cik) \o <<".">>)

\* the try block: the GET, raise_for_status and r.json()['filings']['recent'];
\* whatever it raises becomes the RuntimeError
get_filings(cik, r) ==
  IF r.status = "ok" THEN PyDict(r.recent) ELSE FetchFailure(cik)

(***************************************************************************)
(* What the submissions endpoint answers.  status "fail": the GET or the   *)
(* status check raises; "norecent": the body has no filings.recent; "ok":  *)
(* `recent` is the filings.recent object, which may lack an array or hold  *)
(* arrays of different lengths.                                            *)
(***************************************************************************)
TenK == <<"1", "0", "-", "K">>

TenQ == <<"1", "0", "-", "Q">>

TenKA == <<"1", "0", "-", "K", "/", "A">>

Descriptions == {TenK, TenQ, TenKA}

May2024 == <<"2", "0", "2", "4", "-", "0", "5", "-", "0", "3">>

June2024 == <<"2", "0", "2", "4", "-", "0", "6", "-", "1", "0">>

May2023 == <<"2", "0", "2", "3", "-", "0", "5", "-", "1", "2">>

Dec2024 == <<"2", "0", "2", "4", "-", "1", "2", "-", "2", "0">>

Dates == {May2024, June2024, May2023, Dec2024}

\* the i-th accession number and primary document of a response
AccessionNo(i) == <<"7", "-", "2", "4", "-">> \o StrOfInt(i)

PrimaryDoc(i) == <<"d">> \o StrOfInt(i) \o <<".htm">>

SeqsUpTo(S, n) == UNION {[1..k -> S] : k \in 0..n}

Lengths == 0..MaxFilings

\* an array, or <<"absent">> when the key is missing from filings.recent
Absent == <<<<"absent">>>>

AccessionArrays == {[i \in 1..k |-> AccessionNo(i)] : k \in Lengths} \cup {Absent}

DocumentArrays == {[i \in 1..k |-> PrimaryDoc(i)] : k \in Lengths} \cup {Absent}

DescriptionArrays == SeqsUpTo(Descriptions, MaxFilings) \cup {Absent}

DateArrays == SeqsUpTo(Dates, MaxFilings) \cup {Absent}

ArrayKeys == {"accessionNumber", "primaryDocument", "primaryDocDescription", "filingDate"}

Recent(acc, doc, desc, date) ==
  LET all == [accessionNumber |-> acc, primaryDocument |-> doc,
              primaryDocDescription |-> desc, filingDate |-> date]
  IN  [k \in {x \in ArrayKeys : all[x] # Absent} |-> all[k]]

Responses ==
  {[status |-> "fail"], [status |-> "norecent"]} \cup
  {[status |-> "ok", recent |-> Recent(acc, doc, desc, date)] :
     acc \in AccessionArrays, doc \in DocumentArrays,
     desc \in DescriptionArrays, date \in DateArrays}

(***************************************************************************)
(* annual_filing.                                                          *)
(***************************************************************************)
ArchivePrefix == <<"https://www.sec.gov/Archives/edgar/data/">>

\* the f-string of the document URL
document_url(cik, accession, doc) ==
  ArchivePrefix \o format_cik(cik) \o <<"/">> \o Remove(accession, "-") \o <<"/">> \o doc

FilingEntry(cik, filings, i) ==
  [FilingDate |-> filings.filingDate[i],
   AccessionNumber |-> filings.accessionNumber[i],
   PrimaryDocument |-> filings.primaryDocument[i],
   Description |-> filings.primaryDocDescription[i],
   DocumentURL |-> document_url(cik, filings.accessionNumber[i], filings.primaryDocument[i])]

IndexError == PyRaise("IndexError", <<"list index out of range">>)

\* the four subscripts filings[...] that follow the fetch, in source order
FirstMissingKey(filings) ==
  IF "accessionNumber" \notin DOMAIN filings THEN <<"accessionNumber">>
  ELSE IF "primaryDocument" \notin DOMAIN filings THEN <<"primaryDocument">>
  ELSE IF "primaryDocDescription" \notin DOMAIN filings THEN <<"primaryDocDescription">>
  ELSE IF "filingDate" \notin DOMAIN filings THEN <<"filingDate">>
  ELSE <<>>

NoAnnual == PyStr(<<"No 10-K filing found for the specified year.">>)

RECURSIVE annual_loop(_, _, _, _, _)
\* the loop `for i in range(len(accession_numbers))` from index i on
annual_loop(cik, year, filings, i, results) ==
  IF i > Len(filings.accessionNumber)
    THEN IF results # <<>> THEN PyList(results) ELSE NoAnnual
  ELSE IF i > Len(filings.primaryDocDescription) THEN IndexError
  ELSE IF filings.primaryDocDescription[i] # TenK
    THEN annual_loop(cik, year, filings, i + 1, results)
  ELSE IF i > Len(filings.filingDate) THEN IndexError
  ELSE IF ~StartsWith(filings.filingDate[i], StrOfInt(year))
    THEN annual_loop(cik, year, filings, i + 1, results)
  ELSE IF i > Len(filings.primaryDocument) THEN IndexError
  ELSE annual_loop(cik, year, filings, i + 1, Append(results, FilingEntry(cik, filings, i)))

\* a variant that stops at the first match and returns it alone
annual_filing_first(cik, year, r) ==
  LET got == get_filings(cik, r)
      all == annual_loop(cik, year, got.dict, 1, <<>>)
  IN  IF got.type = "raise"
        THEN PyStr(<<"Error ">> \o got.msg)
      ELSE IF FirstMissingKey(got.dict) # <<>>
        THEN PyRaise("KeyError", FirstMissingKey(got.dict))
      ELSE IF all.type = "list" THEN PyList(<<all.list[1]>>) ELSE all

annual_filing(cik, year, r) ==
  LET got == get_filings(cik, r)
  IN  IF got.type = "raise"
        THEN PyStr(<<"Error ">> \o got.msg)
      ELSE IF FirstMissingKey(got.dict) # <<>>
        THEN PyRaise("KeyError", FirstMissingKey(got.dict))
      ELSE annual_loop(cik, year, got.dict, 1, <<>>)

(***************************************************************************)
(* quarterly_filing.                                                       *)
(***************************************************************************)
\* a variant with calendar quarters
quarter_months_calendar ==
  (1 :> <<1, 2, 3>>) @@ (2 :> <<4, 5, 6>>) @@ (3 :> <<7, 8, 9>>) @@ (4 :> <<10, 11, 12>>)

quarter_months ==
  (1 :> <<12, 1, 2>>) @@ (2 :> <<3, 4, 5>>) @@ (3 :> <<6, 7, 8>>) @@ (4 :> <<9, 10, 11>>)

InList(x, list) == \E k \in 1..Len(list) : list[k] = x

\* int(filing_date.split('-')[1])
filing_month(filing_date) ==
  LET parts == Split(filing_date, "-")
  IN  IF Len(parts) < 2 THEN IndexError
      ELSE IF ~IsDigits(parts[2]) THEN PyRaise("ValueError", <<"invalid literal for int()">>)
      ELSE [type |-> "int", int |-> IntOfStr(parts[2])]

NoQuarterly == PyStr(<<"No 10-Q filing found for the specified year and quarter.">>)

RECURSIVE quarterly_loop(_, _, _, _, _, _)
\* the loop `for i in range(len(accession_numbers))` from index i on
quarterly_loop(cik, year, quarter, filings, i, results) ==
  IF i > Len(filings.accessionNumber)
    THEN IF results # <<>> THEN PyList(results) ELSE NoQuarterly
  ELSE IF i > Len(filings.primaryDocDescription) \/ i > Len(filings.filingDate)
    THEN IndexError
  ELSE IF \/ filings.primaryDocDescription[i] # TenQ
          \/ ~StartsWith(filings.filingDate[i], StrOfInt(year))
    THEN quarterly_loop(cik, year, quarter, filings, i + 1, results)
  ELSE IF filing_month(filings.filingDate[i]).type = "raise"
    THEN filing_month(filings.filingDate[i])
  ELSE IF ~InList(filing_month(filings.filingDate[i]).int, quarter_months[quarter])
    THEN quarterly_loop(cik, year, quarter, filings, i + 1, results)
  ELSE IF i > Len(filings.primaryDocument) THEN IndexError
  ELSE quarterly_loop(cik, year, quarter, filings, i + 1,
                      Append(results, FilingEntry(cik, filings, i)))

InvalidQuarter == PyRaise("ValueError", <<"Quarter must be between 1 and 4.">>)

\* a variant that validates the quarter only after the fetch
quarterly_filing_fetch_first(cik, year, quarter, r) ==
  LET got == get_filings(cik, r)
  IN  IF got.type = "raise"
        THEN PyStr(<<"Error ">> \o got.msg)
      ELSE IF quarter \notin DOMAIN quarter_months
        THEN InvalidQuarter
      ELSE IF FirstMissingKey(got.dict) # <<>>
        THEN PyRaise("KeyError", FirstMissingKey(got.dict))
      ELSE quarterly_loop(cik, year, quarter, got.dict, 1, <<>>)

quarterly_filing(cik, year, quarter, r) ==
  IF quarter \notin DOMAIN quarter_months
    THEN InvalidQuarter
    ELSE LET got == get_filings(cik, r)
         IN  IF got.type = "raise"
               THEN PyStr(<<"Error ">> \o got.msg)
             ELSE IF FirstMissingKey(got.dict) # <<>>
               THEN PyRaise("KeyError", FirstMissingKey(got.dict))
             ELSE quarterly_loop(cik, year, quarter, got.dict, 1, <<>>)

FilingCiks == {0, 320193}

Years == {2023, 2024}

Quarters == 0..5

AnnualFiling ==
  /\ pc = "ready"
  /\ Idle
  /\ \E cik \in FilingCiks, year \in Years, r \in Responses :
       /\ call' = [op |-> "annual_filing", cik |-> cik, year |-> year]
       /\ resp' = r
       /\ geturl' = submissions_url(cik)
       /\ ret' = annual_filing(cik, year, r)
  /\ UNCHANGED <<pc, filejson, cik_data, company_name, stock_ticker>>

\* no request is made when the quarter is rejected
QuarterlyFiling ==
  /\ pc = "ready"
  /\ Idle
  /\ \E cik \in FilingCiks, year \in Years, quarter \in Quarters, r \in Responses :
       /\ call' = [op |-> "quarterly_filing", cik |-> cik, year |-> year,
                   quarter |-> quarter]
       /\ resp' = r
       /\ geturl' = IF quarter \in DOMAIN quarter_months THEN submissions_url(cik) ELSE <<>>
       /\ ret' = quarterly_filing(cik, year, quarter, r)
  /\ UNCHANGED <<pc, filejson, cik_data, company_name, stock_ticker>>

\* a SecEdgar constructed from an empty feed
InitFilings ==
  /\ pc = "ready"
  /\ filejson = <<>>
  /\ cik_data = EmptyDict
  /\ company_name = EmptyDict
  /\ stock_ticker = EmptyDict
  /\ call = [op |-> "none"]
  /\ resp = NoResponse
  /\ geturl = <<>>
  /\ ret = PyNone

NextFilings == AnnualFiling \/ QuarterlyFiling \/ Discard

SpecFilings == InitFilings /\ [][NextFilings]_vars

(***************************************************************************)
(* Properties of the index.                                                *)
(***************************************************************************)
KeptEntries == {i \in 1..Len(filejson) : ~Skipped(filejson[i])}

Records == {cik_data[c] : c \in DOMAIN cik_data}

RoundTrip(rec) ==
  /\ name_to_cik(rec[3]) = PyTuple(rec)
  /\ ticker_to_cik(rec[2]) = PyTuple(rec)

\* Two kept feed entries with different CIKs never share a lowercased name
\* or a lowercased ticker.
NoKeySharedAcrossCiks ==
  \A i, j \in KeptEntries :
    filejson[i].cik_str # filejson[j].cik_str =>
      /\ Lower(filejson[i].title) # Lower(filejson[j].title)
      /\ Lower(filejson[i].ticker) # Lower(filejson[j].ticker)

\* Two kept feed entries with the same CIK agree on the lowercased name and
\* on the lowercased ticker.
OneKeyPairPerCik ==
  \A i, j \in KeptEntries :
    filejson[i].cik_str = filejson[j].cik_str =>
      /\ Lower(filejson[i].title) = Lower(filejson[j].title)
      /\ Lower(filejson[i].ticker) = Lower(filejson[j].ticker)

\* C1 as claimed: once the index is built from any feed, every record of
\* cik_data is what name_to_cik(record.name) and ticker_to_cik(record.ticker)
\* return.
C1_RoundTripAnyFeed == pc = "ready" => \A rec \in Records : RoundTrip(rec)

\* C1 as amended: the round trip holds for every record of cik_data when no
\* two kept feed entries with different CIKs share a lowercased name or a
\* lowercased ticker.
C1_RoundTrip ==
  (pc = "ready" /\ NoKeySharedAcrossCiks) => \A rec \in Records : RoundTrip(rec)

\* C1 witness: two records are stored, and a name_to_cik call with the name of
\* one of them has returned that record.
C1_Witness ==
  /\ pc = "ready"
  /\ NoKeySharedAcrossCiks
  /\ Cardinality(Records) = 2
  /\ call.op = "name_to_cik"
  /\ \E rec \in Records : rec[3] = call.arg /\ ret = PyTuple(rec)

NonEmptyRecords == \A rec \in Records : rec[2] # <<>> /\ rec[3] # <<>>

SkippedAddsNothing ==
  (filejson' # filejson /\ Skipped(filejson'[Len(filejson')])) =>
    UNCHANGED <<cik_data, company_name, stock_ticker>>

\* C2: a loop iteration over a feed value whose ticker or title is missing or
\* empty changes none of the three dictionaries, and every record of cik_data
\* has a non-empty ticker and a non-empty name.
C2_Filtering == [](NonEmptyRecords) /\ [][SkippedAddsNothing]_vars

\* C2 witness: the constructor has visited a value without ticker and a
\* complete value, and holds exactly one record.
C2_Witness ==
  /\ pc = "ready"
  /\ \E i \in 1..Len(filejson) : "ticker" \notin DOMAIN filejson[i]
  /\ KeptEntries # {}
  /\ Cardinality(Records) = 1
  /\ Cardinality(DOMAIN company_name) = 1
  /\ Cardinality(DOMAIN stock_ticker) = 1

CasePairs == {<<"A", "a">>, <<"B", "b">>, <<"C", "c">>, <<"X", "x">>, <<"Y", "y">>}

\* the two strings differ at most in the case of their letters
SameUpToCase(s, t) ==
  /\ Len(s) = Len(t)
  /\ \A i \in 1..Len(s) :
       s[i] = t[i] \/ <<s[i], t[i]>> \in CasePairs \/ <<t[i], s[i]>> \in CasePairs

\* C9: against the built index, two names that differ only in letter case get
\* the same answer from name_to_cik, and two such tickers from ticker_to_cik.
C9_CaseInsensitive ==
  pc = "ready" =>
    /\ \A s, t \in NameQueries :
         SameUpToCase(s, t) => name_to_cik(s) = name_to_cik(t)
    /\ \A s, t \in TickerQueries :
         SameUpToCase(s, t) => ticker_to_cik(s) = ticker_to_cik(t)

\* C9 witness: name_to_cik("AB") has returned a record whose name is written
\* in another case.
C9_Witness ==
  /\ call.op = "name_to_cik"
  /\ call.arg = <<"A", "B">>
  /\ ret.type = "tuple"
  /\ ret.tuple[3] # call.arg
  /\ SameUpToCase(ret.tuple[3], call.arg)

KeyAgrees(answer, pos, key) ==
  answer.type = "tuple" /\ Lower(answer.tuple[pos]) = key

KeysAgree ==
  /\ \A t \in DOMAIN stock_ticker : KeyAgrees(ticker_to_cik(t), 2, t)
  /\ \A n \in DOMAIN company_name : KeyAgrees(name_to_cik(n), 3, n)

\* C10 as claimed: once the index is built from any feed, looking up a key of
\* stock_ticker (of company_name) returns a record whose lowercased ticker
\* (name) is that key.
C10_KeysAgreeAnyFeed == pc = "ready" => KeysAgree

\* C10 as amended: the key agrees with the returned record when the kept feed
\* entries that share a CIK agree on the lowercased ticker and name.
C10_KeysAgree == (pc = "ready" /\ OneKeyPairPerCik) => KeysAgree

\* C10 witness: two kept entries share a CIK, and ticker_to_cik of the one
\* ticker key has returned the record.
C10_Witness ==
  /\ pc = "ready"
  /\ OneKeyPairPerCik
  /\ Cardinality(KeptEntries) = 2
  /\ Cardinality(Records) = 1
  /\ call.op = "ticker_to_cik"
  /\ call.arg \in DOMAIN stock_ticker
  /\ KeyAgrees(ret, 2, call.arg)

(***************************************************************************)
(* Properties of the filing lookups.                                       *)
(***************************************************************************)
FilingCall == call.op \in {"annual_filing", "quarterly_filing"}

\* the response is a filings.recent object with the four arrays, all of the
\* same length
WellFormed(r) ==
  /\ r.status = "ok"
  /\ DOMAIN r.recent = ArrayKeys
  /\ \A k \in ArrayKeys : Len(r.recent[k]) = Len(r.recent.accessionNumber)

RECURSIVE Ascending(_)
\* the elements of a finite set of integers, in increasing order
Ascending(S) ==
  IF S = {}
    THEN <<>>
    ELSE LET m == CHOOSE x \in S : \A y \in S : x <= y
         IN  <<m>> \o Ascending(S \ {m})

YearOfDate(date) == IntOfStr(SubSeq(date, 1, 4))

MonthOfDate(date) == 10 * DigitValue(date[6]) + DigitValue(date[7])

\* the entry is the record at position i of the arrays
EntryIsRecord(entry, recent, i) ==
  /\ entry.AccessionNumber = recent.accessionNumber[i]
  /\ entry.PrimaryDocument = recent.primaryDocument[i]
  /\ entry.Description = recent.primaryDocDescription[i]
  /\ entry.FilingDate = recent.filingDate[i]

\* the value is the list of the records at the positions of `matches`, in
\* scan order
ListsExactly(value, recent, matches) ==
  /\ value.type = "list"
  /\ Len(value.list) = Cardinality(matches)
  /\ \A k \in 1..Len(value.list) :
       EntryIsRecord(value.list[k], recent, Ascending(matches)[k])

AnnualPrefixMatches ==
  {i \in 1..Len(resp.recent.accessionNumber) :
     /\ StartsWith(resp.recent.primaryDocDescription[i], TenK)
     /\ YearOfDate(resp.recent.filingDate[i]) = call.year}

AnnualExactMatches ==
  {i \in 1..Len(resp.recent.accessionNumber) :
     /\ resp.recent.primaryDocDescription[i] = TenK
     /\ YearOfDate(resp.recent.filingDate[i]) = call.year}

\* C3 as claimed: annual_filing returns exactly one filing, the first record
\* in scan order whose form starts with "10-K" and whose filingDate starts
\* with the year, and the not-found value when there is none.
C3_FirstMatchOnly ==
  (call.op = "annual_filing" /\ WellFormed(resp)) =>
    IF AnnualPrefixMatches = {}
      THEN ret = NoAnnual
      ELSE ListsExactly(ret, resp.recent, {Ascending(AnnualPrefixMatches)[1]})

\* C3 as amended: over a response with the four same-length arrays,
\* annual_filing returns the list of all records, in scan order, whose
\* primaryDocDescription equals "10-K" and whose filingDate starts with the
\* year (the first match first, later matches after it), and the not-found
\* message when there is none.
C3_AllMatches ==
  (call.op = "annual_filing" /\ WellFormed(resp)) =>
    IF AnnualExactMatches = {}
      THEN ret = NoAnnual
      ELSE ListsExactly(ret, resp.recent, AnnualExactMatches)

\* C3 witness: two 10-K records of the requested year; annual_filing has
\* returned both, the earlier one first.
C3_Witness ==
  /\ call.op = "annual_filing"
  /\ WellFormed(resp)
  /\ Cardinality(AnnualExactMatches) = 2
  /\ ret.type = "list"
  /\ Len(ret.list) = 2
  /\ ret.list[1].AccessionNumber = AccessionNo(1)
  /\ ret.list[2].AccessionNumber = AccessionNo(2)

QuarterMonthSets ==
  (1 :> {12, 1, 2}) @@ (2 :> {3, 4, 5}) @@ (3 :> {6, 7, 8}) @@ (4 :> {9, 10, 11})

QuarterlyPrefixMatches ==
  {i \in 1..Len(resp.recent.accessionNumber) :
     /\ StartsWith(resp.recent.primaryDocDescription[i], TenQ)
     /\ YearOfDate(resp.recent.filingDate[i]) = call.year
     /\ MonthOfDate(resp.recent.filingDate[i]) \in QuarterMonthSets[call.quarter]}

QuarterlyExactMatches ==
  {i \in 1..Len(resp.recent.accessionNumber) :
     /\ resp.recent.primaryDocDescription[i] = TenQ
     /\ YearOfDate(resp.recent.filingDate[i]) = call.year
     /\ MonthOfDate(resp.recent.filingDate[i]) \in QuarterMonthSets[call.quarter]}

QuarterlyCall(r) ==
  call.op = "quarterly_filing" /\ call.quarter \in 1..4 /\ WellFormed(r)

\* C4 as claimed: quarterly_filing with a quarter in 1..4 returns the first
\* record in scan order whose form starts with "10-Q", whose filingDate starts
\* with the year and whose month is in the quarter's month set, and the
\* not-found value when there is none.
C4_FirstQuarterMatchOnly ==
  QuarterlyCall(resp) =>
    IF QuarterlyPrefixMatches = {}
      THEN ret = NoQuarterly
      ELSE ListsExactly(ret, resp.recent, {Ascending(QuarterlyPrefixMatches)[1]})

\* C4 as amended: over a response with the four same-length arrays,
\* quarterly_filing with a quarter in 1..4 returns the list of all records, in
\* scan order, whose primaryDocDescription equals "10-Q", whose filingDate
\* starts with the year and whose month is in the quarter's month set
\* (Q1={12,1,2}, Q2={3,4,5}, Q3={6,7,8}, Q4={9,10,11}); a record whose month is
\* outside the set is never in the list, and the not-found message is
\* returned when no record qualifies.
C4_AllQuarterMatches ==
  QuarterlyCall(resp) =>
    /\ IF QuarterlyExactMatches = {}
         THEN ret = NoQuarterly
         ELSE ListsExactly(ret, resp.recent, QuarterlyExactMatches)
    /\ ret.type = "list" =>
         \A k \in 1..Len(ret.list) :
           MonthOfDate(ret.list[k].FilingDate) \in QuarterMonthSets[call.quarter]
    /\ (call.quarter = 2 /\ call.year = 2024 /\ ret.type = "list") =>
         \A k \in 1..Len(ret.list) : ret.list[k].FilingDate # June2024

\* C4 witness: quarterly_filing(cik, 2024, 2) over a 10-Q of 2024-06-10
\* followed by a 10-Q of 2024-05-03 has returned the May filing alone.
C4_Witness ==
  /\ QuarterlyCall(resp)
  /\ call.year = 2024
  /\ call.quarter = 2
  /\ resp.recent.primaryDocDescription = <<TenQ, TenQ>>
  /\ resp.recent.filingDate = <<June2024, May2024>>
  /\ ret.type = "list"
  /\ Len(ret.list) = 1
  /\ ret.list[1].FilingDate = May2024
  /\ ret.list[1].AccessionNumber = AccessionNo(2)

\* the zero-padded 10-digit rendering of a CIK below 10^10, digit by digit
RECURSIVE Pow10(_)
Pow10(n) == IF n = 0 THEN 1 ELSE 10 * Pow10(n - 1)

TenDigits(cik) == [i \in 1..10 |-> DigitChars[((cik \div Pow10(10 - i)) % 10) + 1]]

RECURSIVE StripZeros(_)
\* leading zeros stripped; "0" for an all-zero string
StripZeros(s) ==
  IF Len(s) > 1 /\ s[1] = "0" THEN StripZeros(Tail(s)) ELSE s

WithoutHyphens(s) == SelectSeq(s, LAMBDA ch : ch # "-")

UrlWithCik(entry, cikText) ==
  entry.DocumentURL =
    <<"https://www.sec.gov/Archives/edgar/data/">> \o cikText \o <<"/">>
      \o WithoutHyphens(entry.AccessionNumber) \o <<"/">> \o entry.PrimaryDocument

ReturnedEntries ==
  IF FilingCall /\ ret.type = "list"
    THEN {ret.list[k] : k \in 1..Len(ret.list)}
    ELSE {}

\* C5 as claimed: the document URL of every returned filing carries the CIK
\* with its leading zeros stripped ("0" for an all-zero CIK), which is not the
\* zero-padded form of the submissions URL.
C5_UnpaddedUrl ==
  \A entry \in ReturnedEntries :
    /\ UrlWithCik(entry, StripZeros(TenDigits(call.cik)))
    /\ geturl # <<"https://data.sec.gov/submissions/CIK">>
                  \o StripZeros(TenDigits(call.cik)) \o <<".json">>

\* C5 as amended: the document URL of every filing returned by annual_filing
\* or quarterly_filing is
\* https://www.sec.gov/Archives/edgar/data/{cik}/{accession number without
\* hyphens}/{primary document}, where {cik} is the zero-padded 10-digit CIK,
\* the same form the submissions URL uses.
C5_PaddedUrl ==
  \A entry \in ReturnedEntries :
    /\ UrlWithCik(entry, TenDigits(call.cik))
    /\ geturl = <<"https://data.sec.gov/submissions/CIK">>
                  \o TenDigits(call.cik) \o <<".json">>

\* C5 witness: a lookup for CIK 320193 has returned a filing whose URL holds
\* the segment 0000320193 and an accession number without hyphens.
C5_Witness ==
  /\ FilingCall
  /\ call.cik = 320193
  /\ ret.type = "list"
  /\ ret.list[1].AccessionNumber = <<"7", "-", "2", "4", "-", "1">>
  /\ ret.list[1].DocumentURL =
       <<"https://www.sec.gov/Archives/edgar/data/",
         "0", "0", "0", "0", "3", "2", "0", "1", "9", "3", "/",
         "7", "2", "4", "1", "/", "d", "1", ".htm">>

NotFoundValue == IF call.op = "annual_filing" THEN NoAnnual ELSE NoQuarterly

\* the fetch of the last call failed: the lookup got past its argument check
\* and the GET failed or the body had no filings.recent
FetchFailed == FilingCall /\ geturl # <<>> /\ resp.status # "ok"

\* C6: what a filing lookup yields when the fetch fails differs in type from
\* what it yields when no filing matches.
C6_FetchErrorDistinctFromNotFound == FetchFailed => ret.type # NotFoundValue.type

\* the response lacks the expected shape: no filings.recent, an array missing,
\* or arrays of different lengths
LacksShape(r) == r.status # "none" /\ ~WellFormed(r)

\* C8: a filing lookup over a failed GET or a response that lacks the expected
\* shape fails, if it fails, with the fetch error and with no other exception.
C8_MalformedIsFetchError ==
  (FilingCall /\ geturl # <<>> /\ LacksShape(resp)) =>
    (ret.type = "raise" => ret.exc = "RuntimeError")

\* C7: quarterly_filing with a quarter outside 1..4 raises ValueError, whatever
\* the cik, the year and the answer of the submissions endpoint.
C7_InvalidQuarter ==
  (call.op = "quarterly_filing" /\ call.quarter \notin {1, 2, 3, 4}) =>
    (ret.type = "raise" /\ ret.exc = "ValueError")

\* C7 witness: quarterly_filing with quarter 5, against an endpoint whose GET
\* fails, has raised ValueError.
C7_Witness ==
  /\ call.op = "quarterly_filing"
  /\ call.quarter = 5
  /\ resp.status = "fail"
  /\ ret.type = "raise"
  /\ ret.exc = "ValueError"

====
